---- MODULE Spec2Model ----
(***************************************************************************)
(* Model of the Cairo-zero hint runner of cairo-vm-go:                     *)
(*   pkg/hintrunner/zero/zerohint.go  - parameter binding (getParameters), *)
(*       opcode dispatch (GetHintFromCode), table build (GetZeroHints)     *)
(*       and the bodies of the generic hints (IsLeFelt, AssertLtFelt,      *)
(*       TestAssign, AssertLeFeltExcluded2, IsNN, IsNNOutOfRange).         *)
(*                                                                         *)
(*   pkg/hintrunner/hinter/dict.go    - DictionaryManager and              *)
(*       SquashedDictionaryManager.                                        *)
(*                                                                         *)
(* The specifications share the variables:                                 *)
(*   SpecParams - one getParameters call on a drawn identifier table,      *)
(*               reference-id set and hint pc;                             *)
(*   SpecBind  - one GetHintFromCode call on a drawn raw hint, hint pc     *)
(*               and identifier table;                                     *)
(*   SpecBuild - GetZeroHints on a drawn hint map, one map-range           *)
(*               iteration per step (Go ranges over a map in any order);   *)
(*   SpecExec  - Execute of the generic hints on a drawn VM memory;        *)
(*   SpecDict  - the operations of the DictionaryManager in any order;     *)
(*   SpecSquash - the operations of the SquashedDictionaryManager in any   *)
(*               order;                                                    *)
(*   SpecConsume - the consumption loop of the SquashedDictionaryManager   *)
(*               (pops and reads only), with fairness on the loop's step.  *)
(***************************************************************************)
EXTENDS Integers, Sequences, FiniteSets, TLC

VARIABLES
    program,      \* zero.ZeroProgram: [Identifiers, Hints]
    rawHint,      \* zero.Hint handed to GetHintFromCode / getParameters
    hintPC,       \* the hint's program counter
    paramResult,  \* what getParameters returned: [done, resolver, err]
    hintResult,   \* what GetHintFromCode returned: [done, hinter, err, bound]
    pending,      \* GetZeroHints: keys of cairoZeroJson.Hints not yet ranged over
    hints,        \* GetZeroHints: the local map hints (pc -> list of hinters)
    buildResult,  \* GetZeroHints: [state, table, err]
    mem,          \* vm.Memory, the cells of the execution segment
    ap,           \* vm.Context.Ap (offset in the execution segment)
    ctx,          \* hinter.HintRunnerContext: [ExcludedArc]
    last,         \* the last Execute: [name, err, writes]
    dm,           \* ctx.DictionaryManager: [nil, dictionaries, useTemporarySegments]
    segments,     \* vm.Memory: how many real and temporary segments exist
    rules,        \* vm.Memory: the relocation rules (segment index -> address)
    dlast,        \* the last DictionaryManager call: [op, addr, key, value, err]
    sdm,          \* ctx.SquashedDictionaryManager: [KeyToIndices, Keys]
    slast         \* the last SquashedDictionaryManager call

vars == <<program, rawHint, hintPC, paramResult, hintResult,
          pending, hints, buildResult, mem, ap, ctx, last,
          dm, segments, rules, dlast, sdm, slast>>

bindVars == <<program, rawHint, hintPC, paramResult, hintResult>>
buildVars == <<pending, hints, buildResult>>
execVars == <<mem, ap, ctx, last>>
dictVars == <<dm, segments, rules, dlast>>
squashVars == <<sdm, slast>>

(***************************************************************************)
(* Bounds of the model.                                                    *)
(***************************************************************************)
\* longest reference list of an identifier
MaxRefs == 2
\* greatest program counter of a reference or of a directly bound hint
MaxPc == 2
\* longest raw-hint list of one counter of the hint map
MaxHints == 2
\* bit width of the scaled range-check bound (128 in the program)
RcBits == 2

(***************************************************************************)
(* Errors. The code builds them with fmt.Errorf; the model keeps the kind  *)
(* and, where the message names it, the identifier.                        *)
(***************************************************************************)
NoName == "-"
NoErr == [kind |-> "nil", name |-> NoName]
Err(kind, name) == [kind |-> kind, name |-> name]
Failed(e) == e.kind # "nil"

Nil == "nil"

(***************************************************************************)
(* Finite sequences and orders.                                            *)
(***************************************************************************)
SeqUpTo(S, n) == UNION {[1..k -> S] : k \in 0..n}

\* the orders in which a Go range may visit the keys of a map
Orders(S) ==
    {o \in [1..Cardinality(S) -> S] :
        \A i, j \in 1..Cardinality(S) : i # j => o[i] # o[j]}

EmptyMap == [x \in {} |-> Nil]

Put(f, k, v) == [x \in DOMAIN f \cup {k} |-> IF x = k THEN v ELSE f[x]]

(***************************************************************************)
(* The program artifact.                                                   *)
(***************************************************************************)
Names == {"a", "b"}

\* Reference.Value as ParseIdentifier sees it: an expression of a
\* ResOperander, an expression of a plain cell reference, a malformed one.
RefValues == {"res", "cell", "bad"}

References == [Pc : 0..MaxPc, Value : RefValues]

allocSegmentCode == "allocSegmentCode"
isLeFeltCode == "isLeFeltCode"
assertLtFeltCode == "assertLtFeltCode"
testAssignCode == "testAssignCode"
assertLeFeltCode == "assertLeFeltCode"
assertLeFeltExcluded0Code == "assertLeFeltExcluded0Code"
assertLeFeltExcluded1Code == "assertLeFeltExcluded1Code"
assertLeFeltExcluded2Code == "assertLeFeltExcluded2Code"
isNNCode == "isNNCode"
isNNOutOfRangeCode == "isNNOutOfRangeCode"

KnownCodes ==
    {allocSegmentCode, isLeFeltCode, assertLtFeltCode, testAssignCode,
     assertLeFeltCode, assertLeFeltExcluded0Code, assertLeFeltExcluded1Code,
     assertLeFeltExcluded2Code, isNNCode, isNNOutOfRangeCode}

\* opcode strings no case of the switch names
UnknownCodes == {"memory[ap] = 1", ""}

Codes == KnownCodes \cup UnknownCodes

\* zero.Hint: the opcode and the keys of FlowTrackingData.ReferenceIds
RawHints == [Code : Codes, ReferenceIds : SUBSET Names]

Ref(pc, value) == [Pc |-> pc, Value |-> value]

\* an identifier table over Names: present names D, the lists of a and of b
Identifiers(D, la, lb) ==
    [n \in D |-> [References |-> IF n = "a" THEN la ELSE lb]]

Program(identifiers, hintMap) ==
    [Identifiers |-> identifiers, Hints |-> hintMap]

(***************************************************************************)
(* The resolver (hintReferenceResolver) and the identifier parser live in  *)
(* files of the package that are not part of the excerpt; they are         *)
(* modelled from sections 4.1 and 7 of the specification.                  *)
(***************************************************************************)
NewReferenceResolver == EmptyMap

\* parse(expr) -> OperandDescriptor, failing on a malformed expression. The
\* descriptor keeps the reference it was parsed from.
ParseIdentifier(reference) ==
    IF reference.Value = "bad"
      THEN [param |-> Nil, err |-> Err("MalformedReferenceExpression", NoName)]
      ELSE [param |-> [Kind |-> reference.Value, Ref |-> reference],
            err |-> NoErr]

\* insert (name, descriptor); a name already bound is rejected
AddReference(resolver, name, param) ==
    IF name \in DOMAIN resolver
      THEN [resolver |-> resolver, err |-> Err("DuplicateReference", name)]
      ELSE [resolver |-> Put(resolver, name, param), err |-> NoErr]

\* "resolvable operand" access
GetResOperander(resolver, name) ==
    IF name \notin DOMAIN resolver
      THEN [param |-> Nil, err |-> Err("MissingReference", name)]
    ELSE IF resolver[name].Kind # "res"
      THEN [param |-> Nil, err |-> Err("TypeMismatch", name)]
    ELSE [param |-> resolver[name], err |-> NoErr]

\* "raw reference" access
GetReference(resolver, name) ==
    IF name \notin DOMAIN resolver
      THEN [param |-> Nil, err |-> Err("MissingReference", name)]
      ELSE [param |-> resolver[name], err |-> NoErr]

(***************************************************************************)
(* getParameters (zerohint.go:317-356).                                    *)
(***************************************************************************)
RECURSIVE scanReferences(_, _, _)
\* the loop "for i := len(references) - 1; i >= 0; i--" with 1-based
\* indices: the index of the reference it breaks on, 0 when ok stays false
scanReferences(references, pc, i) ==
    IF i = 0 THEN 0
    ELSE IF references[i].Pc <= pc THEN i
    ELSE scanReferences(references, pc, i - 1)

RECURSIVE scanReferencesForward(_, _, _)
scanReferencesForward(references, pc, i) ==
    IF i > Len(references) THEN 0
    ELSE IF references[i].Pc <= pc THEN i
    ELSE scanReferencesForward(references, pc, i + 1)

selectReferenceFirst(references, pc) ==
    scanReferencesForward(references, pc, 1)

selectReference(references, pc) ==
    scanReferences(references, pc, Len(references))

RECURSIVE getParametersLoop(_, _, _, _)
\* the range over hint.FlowTrackingData.ReferenceIds, visiting the names in
\* the order given
getParametersLoop(zeroProgram, pc, order, resolver) ==
    IF order = <<>> THEN [resolver |-> resolver, err |-> NoErr]
    ELSE
      LET referenceName == Head(order) IN
      IF referenceName \notin DOMAIN zeroProgram.Identifiers
        THEN [resolver |-> resolver,
              err |-> Err("MissingIdentifier", referenceName)]
      ELSE
      LET references == zeroProgram.Identifiers[referenceName].References IN
      IF Len(references) = 0
        THEN [resolver |-> resolver,
              err |-> Err("NoReferences", referenceName)]
      ELSE
      LET i == selectReference(references, pc) IN
      IF i = 0
        THEN [resolver |-> resolver,
              err |-> Err("NoApplicableReference", referenceName)]
      ELSE
      LET parsed == ParseIdentifier(references[i]) IN
      IF Failed(parsed.err)
        THEN [resolver |-> resolver, err |-> parsed.err]
      ELSE
      LET added == AddReference(resolver, referenceName, parsed.param) IN
      IF Failed(added.err)
        THEN [resolver |-> resolver, err |-> added.err]
      ELSE getParametersLoop(zeroProgram, pc, Tail(order), added.resolver)

getParameters(zeroProgram, hint, pc, order) ==
    getParametersLoop(zeroProgram, pc, order, NewReferenceResolver)

(***************************************************************************)
(* The hinters and their constructors (zerohint.go:83-315). A hinter is    *)
(* its name and the operands its closure captured.                         *)
(***************************************************************************)
Hinter(name, args) == [Name |-> name, Args |-> args]
NilHinter == Hinter(Nil, EmptyMap)
Built(h) == [hinter |-> h, err |-> NoErr]
NotBuilt(e) == [hinter |-> NilHinter, err |-> e]

CreateAllocSegmentHinter(resolver) ==
    Built(Hinter("AllocSegment", EmptyMap))

\* the constructors that ask the resolver for the operands a and b
createABHinter(name, resolver) ==
    LET argA == GetResOperander(resolver, "a")
        argB == GetResOperander(resolver, "b")
    IN  IF Failed(argA.err) THEN NotBuilt(argA.err)
        ELSE IF Failed(argB.err) THEN NotBuilt(argB.err)
        ELSE Built(Hinter(name, [n \in {"a", "b"} |->
                                    IF n = "a" THEN argA.param ELSE argB.param]))

\* the constructors that ask the resolver for the operand a
createAHinter(name, resolver) ==
    LET argA == GetResOperander(resolver, "a")
    IN  IF Failed(argA.err) THEN NotBuilt(argA.err)
        ELSE Built(Hinter(name, [n \in {"a"} |-> argA.param]))

createIsLeFeltHinter(resolver) == createABHinter("IsLeFelt", resolver)

createAssertLtFeltHinter(resolver) == createABHinter("AssertLtFelt", resolver)

createTestAssignHinter(resolver) ==
    LET arg == GetReference(resolver, "a")
    IN  IF Failed(arg.err) THEN NotBuilt(arg.err)
        ELSE IF arg.param.Kind # "res"
          THEN NotBuilt(Err("ExpectedResOperander", NoName))
        ELSE Built(Hinter("TestAssign", [n \in {"a"} |-> arg.param]))

createAssertLeFeltHinter(resolver) ==
    LET a == GetResOperander(resolver, "a")
        b == GetResOperander(resolver, "b")
        rangeCheckPtr == GetResOperander(resolver, "range_check_ptr")
    IN  IF Failed(a.err) THEN NotBuilt(a.err)
        ELSE IF Failed(b.err) THEN NotBuilt(b.err)
        ELSE IF Failed(rangeCheckPtr.err) THEN NotBuilt(rangeCheckPtr.err)
        ELSE Built(Hinter("AssertLeFindSmallArc",
                 [n \in {"a", "b", "range_check_ptr"} |->
                    IF n = "a" THEN a.param
                    ELSE IF n = "b" THEN b.param ELSE rangeCheckPtr.param]))

createAssertLeFeltExcluded0Hinter(resolver) ==
    Built(Hinter("AssertLeIsFirstArcExcluded", EmptyMap))

createAssertLeFeltExcluded1Hinter(resolver) ==
    Built(Hinter("AssertLeIsSecondArcExcluded", EmptyMap))

createAssertLeFeltExcluded2Hinter(resolver) ==
    Built(Hinter("AssertLeFeltExcluded2", EmptyMap))

createIsNNHinter(resolver) == createAHinter("IsNN", resolver)

createIsNNOutOfRangeHinter(resolver) == createAHinter("IsNNOutOfRange", resolver)

(***************************************************************************)
(* GetHintFromCode (zerohint.go:51-81): bind first, then switch on the     *)
(* opcode. order is the order the range of getParameters takes.            *)
(***************************************************************************)
dispatch(code, resolver) ==
    CASE code = allocSegmentCode -> CreateAllocSegmentHinter(resolver)
      [] code = isLeFeltCode -> createIsLeFeltHinter(resolver)
      [] code = assertLtFeltCode -> createAssertLtFeltHinter(resolver)
      [] code = testAssignCode -> createTestAssignHinter(resolver)
      [] code = assertLeFeltCode -> createAssertLeFeltHinter(resolver)
      [] code = assertLeFeltExcluded0Code ->
            createAssertLeFeltExcluded0Hinter(resolver)
      [] code = assertLeFeltExcluded1Code ->
            createAssertLeFeltExcluded1Hinter(resolver)
      [] code = assertLeFeltExcluded2Code ->
            createAssertLeFeltExcluded2Hinter(resolver)
      [] code = isNNCode -> createIsNNHinter(resolver)
      [] code = isNNOutOfRangeCode -> createIsNNOutOfRangeHinter(resolver)
      [] OTHER -> NotBuilt(Err("UnrecognizedHint", NoName))

\* a dispatch that looks at the opcode before binding the operands
GetHintFromCodeSwitchFirst(zeroProgram, hint, pc, order) ==
    LET bound == getParameters(zeroProgram, hint, pc, order)
    IN  IF hint.Code \notin KnownCodes
          THEN NotBuilt(Err("UnrecognizedHint", NoName))
        ELSE IF Failed(bound.err) THEN NotBuilt(bound.err)
        ELSE dispatch(hint.Code, bound.resolver)

GetHintFromCode(zeroProgram, hint, pc, order) ==
    LET bound == getParameters(zeroProgram, hint, pc, order)
    IN  IF Failed(bound.err) THEN NotBuilt(bound.err)
        ELSE dispatch(hint.Code, bound.resolver)

(***************************************************************************)
(* The VM state the hints act on. Field elements are scaled: the           *)
(* range-check bound 2^128 becomes 2^RcBits and the field prime            *)
(* 2^251 + 17 * 2^192 + 1 becomes 2^(RcBits+1) + 2^RcBits + 1, which keeps *)
(* bound < PRIME / 2. Memory, operands and field arithmetic are packages   *)
(* outside the excerpt, modelled from sections 2, 4.3 and 6 of the         *)
(* specification.                                                          *)
(***************************************************************************)
PRIME == 2^(RcBits + 1) + 2^RcBits + 1
FeltMax128 == 2^RcBits
FeltZero == 0
FeltOne == 1
Felts == 0..(PRIME - 1)

FeltLt(x, y) == x < y
FeltLe(x, y) == x <= y
Sub(x, y) == (x - y) % PRIME

\* memory.MemoryValue: not yet written, a field element, or an address
Unknown == [kind |-> "unknown", felt |-> FeltZero]
AddrValue == [kind |-> "addr", felt |-> FeltZero]
MemoryValueFromFieldElement(f) == [kind |-> "felt", felt |-> f]
MemValues == {Unknown, AddrValue} \cup {MemoryValueFromFieldElement(f) : f \in Felts}

\* offsets of the execution segment: the cells of the operands a and b,
\* and the cell ap points to
Cells == 0..2
ArgA == [Kind |-> "res", Cell |-> 0]
ArgB == [Kind |-> "res", Cell |-> 1]

\* ResOperander.Resolve: the value of the operand's cell, failing on a cell
\* that holds nothing yet
Resolve(arg, m) ==
    IF m[arg.Cell].kind = "unknown"
      THEN [value |-> Unknown, err |-> Err("UnknownValue", NoName)]
      ELSE [value |-> m[arg.Cell], err |-> NoErr]

\* MemoryValue.FieldElement: fails on an address
FieldElement(v) ==
    IF v.kind = "felt"
      THEN [felt |-> v.felt, err |-> NoErr]
      ELSE [felt |-> FeltZero, err |-> Err("NotAFelt", NoName)]

\* Memory.WriteToAddress: a single-location write; a cell holds one value
\* for the whole run, so writing another value over it fails
WriteToAddress(m, addr, v) ==
    IF m[addr].kind # "unknown" /\ m[addr] # v
      THEN [mem |-> m, err |-> Err("RewriteCell", NoName)]
      ELSE [mem |-> [m EXCEPT ![addr] = v], err |-> NoErr]

\* the outcome of one Op: the memory it leaves, its error, and how many
\* times it called WriteToAddress
Outcome(m, e, n) == [mem |-> m, err |-> e, writes |-> n]

\* arg.Resolve(vm) followed by FieldElement()
resolveFelt(arg, m) ==
    LET r == Resolve(arg, m)
    IN  IF Failed(r.err) THEN [felt |-> FeltZero, err |-> r.err]
        ELSE FieldElement(r.value)

\* the closing "return vm.Memory.WriteToAddress(&apAddr, &v)"
writeAp(m, apAddr, v) ==
    LET w == WriteToAddress(m, apAddr, v)
    IN  Outcome(w.mem, w.err, 1)

(***************************************************************************)
(* The Op closures of the generic hints (zerohint.go:97-313).              *)
(***************************************************************************)
\* IsLeFelt with the flag cell written before b is resolved
IsLeFeltOpEarlyWrite(argA, argB, m, apAddr) ==
    LET aFelt == resolveFelt(argA, m)
        bFelt == resolveFelt(argB, m)
    IN  IF Failed(aFelt.err) THEN Outcome(m, aFelt.err, 0)
        ELSE
        LET w == WriteToAddress(m, apAddr, MemoryValueFromFieldElement(FeltOne))
        IN  IF Failed(bFelt.err) THEN Outcome(w.mem, bFelt.err, 1)
            ELSE IF FeltLe(aFelt.felt, bFelt.felt)
              THEN writeAp(m, apAddr, MemoryValueFromFieldElement(FeltZero))
              ELSE Outcome(w.mem, w.err, 1)

\* IsLeFelt comparing with FeltLt
IsLeFeltOpStrict(argA, argB, m, apAddr) ==
    LET aFelt == resolveFelt(argA, m)
        bFelt == resolveFelt(argB, m)
    IN  IF Failed(aFelt.err) THEN Outcome(m, aFelt.err, 0)
        ELSE IF Failed(bFelt.err) THEN Outcome(m, bFelt.err, 0)
        ELSE IF FeltLt(aFelt.felt, bFelt.felt)
          THEN writeAp(m, apAddr, MemoryValueFromFieldElement(FeltZero))
          ELSE writeAp(m, apAddr, MemoryValueFromFieldElement(FeltOne))

\*> memory[ap] = 0 if (ids.a % PRIME) <= (ids.b % PRIME) else 1
IsLeFeltOp(argA, argB, m, apAddr) ==
    LET aFelt == resolveFelt(argA, m)
        bFelt == resolveFelt(argB, m)
    IN  IF Failed(aFelt.err) THEN Outcome(m, aFelt.err, 0)
        ELSE IF Failed(bFelt.err) THEN Outcome(m, bFelt.err, 0)
        ELSE IF FeltLe(aFelt.felt, bFelt.felt)
          THEN writeAp(m, apAddr, MemoryValueFromFieldElement(FeltZero))
          ELSE writeAp(m, apAddr, MemoryValueFromFieldElement(FeltOne))

\* AssertLtFelt comparing with FeltLe
AssertLtFeltOpLe(argA, argB, m) ==
    LET aFelt == resolveFelt(argA, m)
        bFelt == resolveFelt(argB, m)
    IN  IF Failed(aFelt.err) THEN Outcome(m, aFelt.err, 0)
        ELSE IF Failed(bFelt.err) THEN Outcome(m, bFelt.err, 0)
        ELSE IF ~FeltLe(aFelt.felt, bFelt.felt)
          THEN Outcome(m, Err("AssertionFailed", "a < b"), 0)
          ELSE Outcome(m, NoErr, 0)

\*> assert (ids.a % PRIME) < (ids.b % PRIME)
AssertLtFeltOp(argA, argB, m) ==
    LET aFelt == resolveFelt(argA, m)
        bFelt == resolveFelt(argB, m)
    IN  IF Failed(aFelt.err) THEN Outcome(m, aFelt.err, 0)
        ELSE IF Failed(bFelt.err) THEN Outcome(m, bFelt.err, 0)
        ELSE IF ~FeltLt(aFelt.felt, bFelt.felt)
          THEN Outcome(m, Err("AssertionFailed", "a < b"), 0)
          ELSE Outcome(m, NoErr, 0)

TestAssignOp(a, m, apAddr) ==
    LET v == Resolve(a, m)
    IN  IF Failed(v.err) THEN Outcome(m, v.err, 0)
        ELSE writeAp(m, apAddr, v.value)

\* AssertLeFeltExcluded2 testing the selector of the second arc
AssertLeFeltExcluded2OpSecondArc(m, c) ==
    IF c.ExcludedArc # 1
      THEN Outcome(m, Err("AssertionFailed", "excluded == 2"), 0)
      ELSE Outcome(m, NoErr, 0)

AssertLeFeltExcluded2Op(m, c) ==
    IF c.ExcludedArc # 2
      THEN Outcome(m, Err("AssertionFailed", "excluded == 2"), 0)
      ELSE Outcome(m, NoErr, 0)

\* IsNN comparing with FeltLe
IsNNOpLe(argA, m, apAddr) ==
    LET aFelt == resolveFelt(argA, m)
    IN  IF Failed(aFelt.err) THEN Outcome(m, aFelt.err, 0)
        ELSE IF FeltLe(aFelt.felt, FeltMax128)
          THEN writeAp(m, apAddr, MemoryValueFromFieldElement(FeltZero))
          ELSE writeAp(m, apAddr, MemoryValueFromFieldElement(FeltOne))

\*> memory[ap] = 0 if 0 <= (ids.a % PRIME) < range_check_builtin.bound else 1
IsNNOp(argA, m, apAddr) ==
    LET aFelt == resolveFelt(argA, m)
    IN  IF Failed(aFelt.err) THEN Outcome(m, aFelt.err, 0)
        ELSE IF FeltLt(aFelt.felt, FeltMax128)
          THEN writeAp(m, apAddr, MemoryValueFromFieldElement(FeltZero))
          ELSE writeAp(m, apAddr, MemoryValueFromFieldElement(FeltOne))

\*> memory[ap] = 0 if 0 <= ((-ids.a - 1) % PRIME) < range_check_builtin.bound else 1
\* lhs is computed and never read: the test is on aFelt
IsNNOutOfRangeOp(argA, m, apAddr) ==
    LET aFelt == resolveFelt(argA, m)
    IN  IF Failed(aFelt.err) THEN Outcome(m, aFelt.err, 0)
        ELSE
        LET lhs == Sub(Sub(FeltZero, aFelt.felt), FeltOne)
        IN  IF FeltLt(aFelt.felt, FeltMax128)
              THEN writeAp(m, apAddr, MemoryValueFromFieldElement(FeltZero))
              ELSE writeAp(m, apAddr, MemoryValueFromFieldElement(FeltOne))

(***************************************************************************)
(* Values of the variables a specification does not use.                   *)
(***************************************************************************)
IdleProgram == Program(EmptyMap, EmptyMap)
IdleHint == [Code |-> "", ReferenceIds |-> {}]
IdleParams == [done |-> FALSE, resolver |-> NewReferenceResolver, err |-> NoErr]
IdleBind == [done |-> FALSE, hinter |-> NilHinter, err |-> NoErr]
NilTable == [nil |-> TRUE, entries |-> EmptyMap]
IdleBuild == [state |-> "idle", table |-> NilTable, err |-> NoErr]
IdleMem == [c \in Cells |-> Unknown]
FreshCtx == [ExcludedArc |-> 0]
IdleLast == [name |-> NoName, err |-> NoErr, writes |-> 0]

BindIdle ==
    /\ program = IdleProgram /\ rawHint = IdleHint /\ hintPC = 0
    /\ paramResult = IdleParams /\ hintResult = IdleBind
BuildIdle == pending = {} /\ hints = EmptyMap /\ buildResult = IdleBuild
ExecIdle ==
    /\ mem = IdleMem /\ ap = 0 /\ ctx = FreshCtx /\ last = IdleLast

\* memory.MemoryAddress and its zero value
MemoryAddress(s, o) == [SegmentIndex |-> s, Offset |-> o]
ZeroAddress == MemoryAddress(0, 0)
\* a nil *mem.MemoryValue
NilValue == [kind |-> "nil", felt |-> FeltZero]

\* the zero value of DictionaryManager: the map is nil
ZeroDictionaryManager ==
    [nil |-> TRUE, dictionaries |-> EmptyMap, useTemporarySegments |-> FALSE]
NoSegments == [real |-> 0, temp |-> 0]
IdleDictCall ==
    [op |-> "none", addr |-> ZeroAddress, key |-> FeltZero,
     value |-> NilValue, err |-> NoErr]
DictIdle ==
    /\ dm = ZeroDictionaryManager /\ segments = NoSegments
    /\ rules = EmptyMap /\ dlast = IdleDictCall

\* the zero value of SquashedDictionaryManager: map and slice are nil
ZeroSquashedDictionaryManager ==
    [KeyToIndices |-> [nil |-> TRUE, entries |-> EmptyMap],
     Keys |-> [nil |-> TRUE, elems |-> <<>>]]
IdleSquashCall ==
    [op |-> "none", key |-> FeltZero, index |-> 0, indices |-> <<>>,
     err |-> NoErr]
SquashIdle == sdm = ZeroSquashedDictionaryManager /\ slast = IdleSquashCall

(***************************************************************************)
(* SpecParams: getParameters on a drawn identifier table.                  *)
(***************************************************************************)
\* the reference list of b where b is declared
BRefs == <<Ref(0, "res")>>

ParamPrograms ==
    {Program(Identifiers(D, la, BRefs), EmptyMap) :
        D \in SUBSET Names, la \in SeqUpTo(References, MaxRefs)}

InitParams ==
    /\ program \in ParamPrograms
    /\ rawHint \in [Code : {isLeFeltCode}, ReferenceIds : SUBSET Names]
    /\ hintPC \in 0..MaxPc
    /\ paramResult = IdleParams
    /\ hintResult = IdleBind
    /\ BuildIdle
    /\ ExecIdle
    /\ DictIdle
    /\ SquashIdle

CallGetParameters ==
    /\ ~paramResult.done
    /\ \E order \in Orders(rawHint.ReferenceIds) :
         LET r == getParameters(program, rawHint, hintPC, order)
         IN  paramResult' = [done |-> TRUE, resolver |-> r.resolver, err |-> r.err]
    /\ UNCHANGED <<program, rawHint, hintPC, hintResult, buildVars, execVars, dictVars, squashVars>>

NextParams == CallGetParameters

SpecParams == InitParams /\ [][NextParams]_vars

(***************************************************************************)
(* SpecBind: GetHintFromCode on a drawn raw hint.                          *)
(***************************************************************************)
BindALists ==
    {<<>>, <<Ref(0, "res")>>, <<Ref(1, "res")>>, <<Ref(0, "cell")>>,
     <<Ref(0, "bad")>>}

BindPrograms ==
    {Program(Identifiers(D, la, BRefs), EmptyMap) :
        D \in SUBSET Names, la \in BindALists}

InitBind ==
    /\ program \in BindPrograms
    /\ rawHint \in RawHints
    /\ hintPC \in 0..MaxPc
    /\ paramResult = IdleParams
    /\ hintResult = IdleBind
    /\ BuildIdle
    /\ ExecIdle
    /\ DictIdle
    /\ SquashIdle

CallGetHintFromCode ==
    /\ ~hintResult.done
    /\ \E order \in Orders(rawHint.ReferenceIds) :
         LET r == GetHintFromCode(program, rawHint, hintPC, order)
         IN  hintResult' = [done |-> TRUE, hinter |-> r.hinter, err |-> r.err]
    /\ UNCHANGED <<program, rawHint, hintPC, paramResult, buildVars, execVars, dictVars, squashVars>>

NextBind == CallGetHintFromCode

SpecBind == InitBind /\ [][NextBind]_vars

(***************************************************************************)
(* GetZeroHints (zerohint.go:30-49).                                       *)
(***************************************************************************)
Digits == <<"0", "1", "2", "3", "4", "5", "6", "7", "8", "9">>
IsDigit(c) == \E i \in DOMAIN Digits : Digits[i] = c
DigitValue(c) == (CHOOSE i \in DOMAIN Digits : Digits[i] = c) - 1

RECURSIVE parseDigits(_, _)
parseDigits(s, acc) ==
    IF s = <<>> THEN acc
    ELSE parseDigits(Tail(s), acc * Len(Digits) + DigitValue(Head(s)))

\* strconv.ParseUint(counter, 10, 64) on a string given as its characters:
\* no sign, no empty string, digits only, leading zeros allowed. The
\* counters of the model are too short to leave 64 bits.
ParseUint(s) ==
    IF s = <<>> \/ \E i \in DOMAIN s : ~IsDigit(s[i])
      THEN [val |-> 0, err |-> Err("ParseUint", NoName)]
      ELSE [val |-> parseDigits(s, 0), err |-> NoErr]

\* hints[pc] = append(hints[pc], hint), the hint put in front instead
prependHint(table, pc, hint) ==
    Put(table, pc, IF pc \in DOMAIN table THEN <<hint>> \o table[pc] ELSE <<hint>>)

\* hints[pc] = append(hints[pc], hint)
appendHint(table, pc, hint) ==
    Put(table, pc, IF pc \in DOMAIN table THEN Append(table[pc], hint) ELSE <<hint>>)

RECURSIVE buildCounter(_, _, _, _, _)
\* the inner loop over rawHints; orders[i] is the order getParameters
\* ranges in for the i-th hint
buildCounter(zeroProgram, rawHints, pc, table, orders) ==
    IF rawHints = <<>> THEN [hints |-> table, err |-> NoErr]
    ELSE
      LET r == GetHintFromCode(zeroProgram, Head(rawHints), pc, Head(orders))
      IN  IF Failed(r.err) THEN [hints |-> table, err |-> r.err]
          ELSE buildCounter(zeroProgram, Tail(rawHints), pc,
                            appendHint(table, pc, r.hinter), Tail(orders))

OrderChoices(rawHints) ==
    {os \in [DOMAIN rawHints ->
                UNION {Orders(rawHints[i].ReferenceIds) : i \in DOMAIN rawHints}] :
        \A i \in DOMAIN rawHints : os[i] \in Orders(rawHints[i].ReferenceIds)}

\* "return nil, err" giving back the table built so far
returnPartialOnError(table, e) ==
    [state |-> "returned", table |-> [nil |-> FALSE, entries |-> table], err |-> e]

\* "return nil, err"
returnOnError(table, e) ==
    [state |-> "returned", table |-> NilTable, err |-> e]

\* "return hints, nil"
returnTable(table) ==
    [state |-> "returned", table |-> [nil |-> FALSE, entries |-> table],
     err |-> NoErr]

\* the counters of a hint map: decimal, with a leading zero, not a number
CounterStrings == {<<"0">>, <<"1">>, <<"0", "1">>, <<"x">>}

\* most counters of one hint map
MaxCounters == 2

BuildIdentifiers == Identifiers({"a"}, <<Ref(1, "res")>>, BRefs)

\* raw hints of a hint map: one that binds a (from pc 1 on), one without
\* operands, one no case names
BuildHints ==
    {[Code |-> isNNCode, ReferenceIds |-> {"a"}],
     [Code |-> assertLeFeltExcluded2Code, ReferenceIds |-> {}],
     [Code |-> "memory[ap] = 1", ReferenceIds |-> {}]}

HintMaps ==
    UNION {[D -> SeqUpTo(BuildHints, MaxHints)] :
             D \in {E \in SUBSET CounterStrings : Cardinality(E) <= MaxCounters}}

InitBuild ==
    /\ \E hm \in HintMaps :
         /\ program = Program(BuildIdentifiers, hm)
         /\ pending = DOMAIN hm
    /\ rawHint = IdleHint /\ hintPC = 0
    /\ paramResult = IdleParams /\ hintResult = IdleBind
    /\ hints = EmptyMap
    /\ buildResult = [state |-> "running", table |-> NilTable, err |-> NoErr]
    /\ ExecIdle
    /\ DictIdle
    /\ SquashIdle

\* one iteration of "for counter, rawHints := range cairoZeroJson.Hints"
BuildIterate(counter) ==
    /\ buildResult.state = "running"
    /\ counter \in pending
    /\ LET parsed == ParseUint(counter)
           rawHints == program.Hints[counter]
       IN  IF Failed(parsed.err)
             THEN /\ buildResult' = returnOnError(hints, parsed.err)
                  /\ UNCHANGED <<pending, hints>>
             ELSE \E orders \in OrderChoices(rawHints) :
                    LET r == buildCounter(program, rawHints, parsed.val,
                                          hints, orders)
                    IN  /\ hints' = r.hints
                        /\ IF Failed(r.err)
                             THEN /\ buildResult' = returnOnError(r.hints, r.err)
                                  /\ UNCHANGED pending
                             ELSE /\ pending' = pending \ {counter}
                                  /\ UNCHANGED buildResult
    /\ UNCHANGED <<bindVars, execVars, dictVars, squashVars>>

\* the range is over: "return hints, nil"
BuildReturn ==
    /\ buildResult.state = "running"
    /\ pending = {}
    /\ buildResult' = returnTable(hints)
    /\ UNCHANGED <<pending, hints, bindVars, execVars, dictVars, squashVars>>

NextBuild ==
    \/ \E counter \in CounterStrings : BuildIterate(counter)
    \/ BuildReturn

SpecBuild == InitBuild /\ [][NextBuild]_vars

(***************************************************************************)
(* SpecExec: the VM loop reaches a counter and executes its hints on a     *)
(* drawn memory. The operands a and b were bound to the cells ArgA and     *)
(* ArgB; ap points to another cell.                                        *)
(***************************************************************************)
\* what the cell ap points to may hold before the hint
ApValues ==
    {Unknown, MemoryValueFromFieldElement(FeltZero),
     MemoryValueFromFieldElement(FeltOne)}

\* the arcs the arc-finding assertion may exclude
Arcs == {0, 1, 2}

InitExec ==
    /\ BindIdle
    /\ BuildIdle
    /\ ap \in Cells \ {ArgA.Cell, ArgB.Cell}
    /\ mem \in {m \in [Cells -> MemValues] : m[ap] \in ApValues}
    /\ ctx = FreshCtx
    /\ last = IdleLast
    /\ DictIdle
    /\ SquashIdle

\* GenericZeroHinter.Execute: run the Op on the VM and the context
Execute(name, out) ==
    /\ mem' = out.mem
    /\ last' = [name |-> name, err |-> out.err, writes |-> out.writes]
    /\ UNCHANGED <<ap, ctx, bindVars, buildVars, dictVars, squashVars>>

ExecuteIsLeFelt == Execute("IsLeFelt", IsLeFeltOp(ArgA, ArgB, mem, ap))

ExecuteAssertLtFelt == Execute("AssertLtFelt", AssertLtFeltOp(ArgA, ArgB, mem))

ExecuteTestAssign == Execute("TestAssign", TestAssignOp(ArgA, mem, ap))

ExecuteAssertLeFeltExcluded2 ==
    Execute("AssertLeFeltExcluded2", AssertLeFeltExcluded2Op(mem, ctx))

ExecuteIsNN == Execute("IsNN", IsNNOp(ArgA, mem, ap))

ExecuteIsNNOutOfRange == Execute("IsNNOutOfRange", IsNNOutOfRangeOp(ArgA, mem, ap))

\* the arc-finding assertion (core.AssertLeFindSmallArc, outside the
\* excerpt) records which arc it excluded in the run context
ExecuteAssertLeFindSmallArc(arc) ==
    /\ ctx' = [ctx EXCEPT !.ExcludedArc = arc]
    /\ last' = [name |-> "AssertLeFindSmallArc", err |-> NoErr, writes |-> 0]
    /\ UNCHANGED <<mem, ap, bindVars, buildVars, dictVars, squashVars>>

NextExec ==
    \/ ExecuteIsLeFelt
    \/ ExecuteAssertLtFelt
    \/ ExecuteTestAssign
    \/ ExecuteAssertLeFeltExcluded2
    \/ ExecuteIsNN
    \/ ExecuteIsNNOutOfRange
    \/ \E arc \in Arcs : ExecuteAssertLeFindSmallArc(arc)

SpecExec == InitExec /\ [][NextExec]_vars

(***************************************************************************)
(* Properties.                                                             *)
(***************************************************************************)
Declared(n) == n \in DOMAIN program.Identifiers
RefsOf(n) == program.Identifiers[n].References
\* the positions of the references of n a hint at hintPC may use
Applicable(n) == {i \in DOMAIN RefsOf(n) : RefsOf(n)[i].Pc <= hintPC}
Greatest(S) == CHOOSE x \in S : \A y \in S : y <= x
Ascending(refs) ==
    \A i, j \in DOMAIN refs : i < j => refs[i].Pc <= refs[j].Pc
\* binding n succeeds
Binds(n) ==
    /\ Declared(n)
    /\ Applicable(n) # {}
    /\ RefsOf(n)[Greatest(Applicable(n))].Value # "bad"

C3_UnknownOpcodeFails ==
    (hintResult.done /\ rawHint.Code \notin KnownCodes) =>
      /\ Failed(hintResult.err)
      /\ hintResult.hinter = NilHinter
      /\ hintResult.err.kind = "UnrecognizedHint" <=>
           \A n \in rawHint.ReferenceIds : Binds(n)
      /\ hintResult.err.kind # "UnrecognizedHint" =>
           hintResult.err.kind \in
             {"MissingIdentifier", "NoReferences", "NoApplicableReference",
              "MalformedReferenceExpression"}

\* C3 witness: an unknown opcode whose reference_ids all bind was refused
\* as unrecognized.
C3_Witness ==
    /\ hintResult.done
    /\ rawHint.Code \notin KnownCodes
    /\ rawHint.ReferenceIds = Names
    /\ hintResult.err.kind = "UnrecognizedHint"

\* C3 as stated: an unknown opcode fails with the unrecognized-hint error
\* whatever reference_ids and the identifier table contain.
C3_UnknownOpcodeUnrecognized ==
    (hintResult.done /\ rawHint.Code \notin KnownCodes) =>
      hintResult.err.kind = "UnrecognizedHint"

Returned == buildResult.state = "returned"
CounterPc(c) == ParseUint(c).val
\* the counters of the hint map that parse to pc and have raw hints
KeysOf(pc) ==
    {c \in DOMAIN program.Hints :
        /\ ~Failed(ParseUint(c).err)
        /\ CounterPc(c) = pc
        /\ program.Hints[c] # <<>>}
\* the hinters a raw hint may become at pc
HintersOf(raw, pc) ==
    {GetHintFromCode(program, raw, pc, o).hinter : o \in Orders(raw.ReferenceIds)}
\* list is, hinter for hinter, what the raw hints raws become at pc
BuiltFrom(list, raws, pc) ==
    /\ Len(list) = Len(raws)
    /\ \A i \in DOMAIN raws : list[i] \in HintersOf(raws[i], pc)

RECURSIVE RawsInOrder(_)
\* the raw-hint lists of the counters keys, one after the other
RawsInOrder(keys) ==
    IF keys = <<>> THEN <<>>
    ELSE program.Hints[Head(keys)] \o RawsInOrder(Tail(keys))

\* C2 (as amended): when GetZeroHints succeeds, the key set of the returned
\* table is the set of program counters of the counters of the hint map
\* whose raw-hint list is NOT empty (a counter with an empty list gets no
\* key), and the list of a program counter is, in length and order, the
\* raw-hint lists of the counters that parse to it, one after the other: a
\* program counter written in one way only has a list of the same length and
\* order as that counter's raw-hint list.
C2_TableKeysAndOrder ==
    (Returned /\ ~Failed(buildResult.err)) =>
      LET entries == buildResult.table.entries
      IN  /\ ~buildResult.table.nil
          /\ DOMAIN entries =
               {CounterPc(c) : c \in {d \in DOMAIN program.Hints :
                                         program.Hints[d] # <<>>}}
          /\ \A pc \in DOMAIN entries :
               /\ \E keys \in Orders(KeysOf(pc)) :
                    BuiltFrom(entries[pc], RawsInOrder(keys), pc)
               /\ \A c \in KeysOf(pc) :
                    KeysOf(pc) = {c} =>
                      BuiltFrom(entries[pc], program.Hints[c], pc)

\* C2 witness: a successful build of a hint map with an empty raw-hint list
\* and a list of two different hints.
C2_Witness ==
    /\ Returned /\ ~Failed(buildResult.err)
    /\ \E c \in DOMAIN program.Hints : program.Hints[c] = <<>>
    /\ \E pc \in DOMAIN buildResult.table.entries :
         LET list == buildResult.table.entries[pc]
         IN  Len(list) = 2 /\ list[1] # list[2]

\* C2 as stated: the key set is the set of program counters of ALL keys of
\* the hint map, a counter with an empty raw-hint list included, and each
\* counter's list has the length and order of its raw-hint list.
C2_TableKeysAllCounters ==
    (Returned /\ ~Failed(buildResult.err)) =>
      LET entries == buildResult.table.entries
      IN  /\ DOMAIN entries = {CounterPc(c) : c \in DOMAIN program.Hints}
          /\ \A c \in DOMAIN program.Hints :
               BuiltFrom(entries[CounterPc(c)], program.Hints[c], CounterPc(c))

\* C4: when the counter of an iteration does not parse or one of its hints
\* fails to build, GetZeroHints returns that error and a nil table, whatever
\* hints it had built before; it returns without an error only when every
\* counter parses and every raw hint builds.
C4_NoPartialTable ==
    Returned =>
      /\ Failed(buildResult.err) => buildResult.table = NilTable
      /\ ~Failed(buildResult.err) =>
           \A c \in DOMAIN program.Hints :
             /\ ~Failed(ParseUint(c).err)
             /\ \A i \in DOMAIN program.Hints[c] :
                  NilHinter \notin HintersOf(program.Hints[c][i], CounterPc(c))
      /\ Failed(buildResult.err) =>
           \E c \in DOMAIN program.Hints :
             \/ ParseUint(c).err = buildResult.err
             \/ \E i \in DOMAIN program.Hints[c] :
                  \E o \in Orders(program.Hints[c][i].ReferenceIds) :
                    GetHintFromCode(program, program.Hints[c][i],
                                    CounterPc(c), o).err = buildResult.err

\* C4 witness: the build failed on an unrecognized opcode after it had put
\* hints of an earlier counter in its table.
C4_Witness ==
    /\ Returned
    /\ buildResult.err.kind = "UnrecognizedHint"
    /\ hints # EmptyMap
    /\ pending # DOMAIN program.Hints
    /\ buildResult.table = NilTable

IsFelt(c) == mem[c].kind = "felt"
FeltAt(c) == mem[c].felt
Flag(b) == [kind |-> "felt", felt |-> IF b THEN 0 ELSE 1]
\* the cells other than the one ap points to keep their values in the step
OnlyApWritten == \A c \in Cells \ {ap} : mem'[c] = mem[c]
Ran(name) == last'.name = name

\* C5: an Execute of a hint of the set calls the memory write at most once
\* and changes at most one cell, and an Execute that returns an error leaves
\* the memory as it was.
C5_FailedHintWritesNothing ==
    [][/\ last'.writes <= 1
       /\ Cardinality({c \in Cells : mem'[c] # mem[c]}) <= 1
       /\ Failed(last'.err) => mem' = mem]_vars

\* C5 witness: IsLeFelt failed on its second operand, after it had resolved
\* the first, and the cell ap points to is still empty.
C5_Witness ==
    /\ last.name = "IsLeFelt"
    /\ Failed(last.err)
    /\ IsFelt(ArgA.Cell)
    /\ ~IsFelt(ArgB.Cell)
    /\ mem[ap] = Unknown

\* C6: on field elements a and b, IsLeFelt writes 0 to the cell ap points
\* to if a <= b (a = b included) and 1 otherwise, and writes no other cell;
\* it succeeds when that cell is empty, and a failed write changes nothing.
C6_IsLeFeltFlag ==
    [][(Ran("IsLeFelt") /\ IsFelt(ArgA.Cell) /\ IsFelt(ArgB.Cell)) =>
         /\ mem[ap] = Unknown => ~Failed(last'.err)
         /\ ~Failed(last'.err) =>
              mem'[ap] = Flag(FeltAt(ArgA.Cell) <= FeltAt(ArgB.Cell))
         /\ Failed(last'.err) => mem' = mem
         /\ OnlyApWritten]_vars

\* C6 witness: IsLeFelt ran on a = b and left 0 in the cell ap points to.
C6_Witness ==
    /\ last.name = "IsLeFelt" /\ ~Failed(last.err) /\ last.writes = 1
    /\ IsFelt(ArgA.Cell) /\ IsFelt(ArgB.Cell)
    /\ FeltAt(ArgA.Cell) = FeltAt(ArgB.Cell)
    /\ mem[ap] = Flag(TRUE)

\* C7: on field elements a and b, AssertLtFelt succeeds exactly when a < b
\* and fails with an assertion error exactly when a >= b; whatever the
\* outcome it writes no memory and leaves the run context unchanged.
C7_AssertLtFelt ==
    [][Ran("AssertLtFelt") =>
         /\ mem' = mem /\ ctx' = ctx /\ last'.writes = 0
         /\ (IsFelt(ArgA.Cell) /\ IsFelt(ArgB.Cell)) =>
              /\ ~Failed(last'.err) <=> FeltAt(ArgA.Cell) < FeltAt(ArgB.Cell)
              /\ Failed(last'.err) => last'.err.kind = "AssertionFailed"]_vars

\* C7 witness: AssertLtFelt failed its assertion on a = b.
C7_Witness ==
    /\ last.name = "AssertLtFelt"
    /\ last.err.kind = "AssertionFailed"
    /\ IsFelt(ArgA.Cell) /\ IsFelt(ArgB.Cell)
    /\ FeltAt(ArgA.Cell) = FeltAt(ArgB.Cell)

\* C8: on a field element a, IsNN writes 0 to the cell ap points to if a is
\* strictly below the range-check bound and 1 otherwise (bound - 1 gives 0,
\* bound gives 1), and writes no other cell.
C8_IsNNFlag ==
    [][(Ran("IsNN") /\ IsFelt(ArgA.Cell)) =>
         /\ mem[ap] = Unknown => ~Failed(last'.err)
         /\ ~Failed(last'.err) =>
              mem'[ap] = Flag(FeltAt(ArgA.Cell) < 2^RcBits)
         /\ Failed(last'.err) => mem' = mem
         /\ OnlyApWritten]_vars

\* C8 witness: IsNN ran on a = bound and left 1 in the cell ap points to.
C8_Witness ==
    /\ last.name = "IsNN" /\ ~Failed(last.err) /\ last.writes = 1
    /\ IsFelt(ArgA.Cell)
    /\ FeltAt(ArgA.Cell) = 2^RcBits
    /\ mem[ap] = Flag(FALSE)

\* C9 (the claim, which the code does not meet): on a field element a,
\* IsNNOutOfRange leaves 0 in the cell ap points to if (-a - 1) mod PRIME is
\* strictly below the range-check bound and 1 otherwise.
C9_IsNNOutOfRangeShifted ==
    (last.name = "IsNNOutOfRange" /\ ~Failed(last.err) /\ IsFelt(ArgA.Cell)) =>
      mem[ap] = Flag(((0 - FeltAt(ArgA.Cell) - 1) % PRIME) < 2^RcBits)

\* C10: AssertLeFeltExcluded2 succeeds if and only if the excluded-arc
\* selector of the run context is 2 when it runs, and fails with an
\* assertion error for every other value, the 0 of a fresh context
\* included; it writes no memory and leaves the run context as it was.
C10_Excluded2 ==
    [][Ran("AssertLeFeltExcluded2") =>
         /\ ~Failed(last'.err) <=> ctx.ExcludedArc = 2
         /\ Failed(last'.err) => last'.err.kind = "AssertionFailed"
         /\ mem' = mem /\ ctx' = ctx /\ last'.writes = 0]_vars

\* C10 witness: AssertLeFeltExcluded2 succeeded in a context whose selector
\* is 2.
C10_Witness ==
    /\ last.name = "AssertLeFeltExcluded2"
    /\ ~Failed(last.err)
    /\ ctx.ExcludedArc = 2


(***************************************************************************)
(* Dictionary (dict.go:12-40).                                             *)
(***************************************************************************)
NoValueForKey == Err("no value for key", NoName)
NoDictionaryAtAddress == Err("no dictionary at address", NoName)
\* a Go run-time panic: assignment to an entry of a nil map
NilMapPanic == Err("panic: assignment to entry in nil map", NoName)

\* Dictionary{data: make(map...), idx: idx}; end keeps its zero value
Dictionary(idx) == [data |-> EmptyMap, idx |-> idx, end |-> ZeroAddress]

Dictionary_At(d, key) ==
    IF key \in DOMAIN d.data
      THEN [value |-> d.data[key], err |-> NoErr]
      ELSE [value |-> NilValue, err |-> NoValueForKey]

\* a Set that leaves the data as it was
Dictionary_SetDropped(d, key, value) == d

Dictionary_Set(d, key, value) == [d EXCEPT !.data = Put(d.data, key, value)]

SetEnd(d, end) == [d EXCEPT !.end = end]

InitNumber(d) == d.idx

(***************************************************************************)
(* The memory the manager allocates in (vm.Memory): real segments are      *)
(* numbered 0, 1, ... and temporary segments -1, -2, ...; a relocation     *)
(* rule maps a segment index to an address.                                *)
(***************************************************************************)
AllocateEmptySegment(sg) ==
    [memory |-> [sg EXCEPT !.real = @ + 1],
     addr |-> MemoryAddress(sg.real, 0)]

AllocateEmptyTemporarySegment(sg) ==
    [memory |-> [sg EXCEPT !.temp = @ + 1],
     addr |-> MemoryAddress(-(sg.temp + 1), 0)]

AddRelocationRule(rs, segmentIndex, addr) == Put(rs, segmentIndex, addr)

(***************************************************************************)
(* DictionaryManager (dict.go:43-112).                                     *)
(***************************************************************************)
InitializeDictionaryManager(m, useTemporarySegments) ==
    [nil |-> FALSE,
     dictionaries |-> IF m.nil THEN EmptyMap ELSE m.dictionaries,
     useTemporarySegments |-> useTemporarySegments]

allocateForDictionary(m, sg) ==
    IF m.useTemporarySegments
      THEN AllocateEmptyTemporarySegment(sg)
      ELSE AllocateEmptySegment(sg)

\* a NewDictionary that numbers every dictionary 0
NewDictionaryUnnumbered(m, sg) ==
    LET a == allocateForDictionary(m, sg)
    IN  [dm |-> [m EXCEPT !.dictionaries =
                    Put(@, a.addr.SegmentIndex, Dictionary(0))],
         memory |-> a.memory, addr |-> a.addr]

\* on a manager whose map is not nil
NewDictionary(m, sg) ==
    LET a == allocateForDictionary(m, sg)
        idx == Cardinality(DOMAIN m.dictionaries)
    IN  [dm |-> [m EXCEPT !.dictionaries =
                    Put(@, a.addr.SegmentIndex, Dictionary(idx))],
         memory |-> a.memory, addr |-> a.addr]

GetDictionary(m, dictAddr) ==
    IF dictAddr.SegmentIndex \in DOMAIN m.dictionaries
      THEN [dict |-> m.dictionaries[dictAddr.SegmentIndex], err |-> NoErr]
      ELSE [dict |-> Dictionary(0), err |-> NoDictionaryAtAddress]

DictionaryManager_At(m, dictAddr, key) ==
    IF dictAddr.SegmentIndex \in DOMAIN m.dictionaries
      THEN Dictionary_At(m.dictionaries[dictAddr.SegmentIndex], key)
      ELSE [value |-> NilValue, err |-> NoDictionaryAtAddress]

\* a Set that registers a dictionary where none is tracked
DictionaryManager_SetCreating(m, dictAddr, key, value) ==
    LET i == dictAddr.SegmentIndex
        dict == IF i \in DOMAIN m.dictionaries
                  THEN m.dictionaries[i] ELSE Dictionary(0)
    IN  [dm |-> [m EXCEPT !.dictionaries =
                    Put(@, i, SetEnd(Dictionary_Set(dict, key, value), dictAddr))],
         err |-> NoErr]

DictionaryManager_Set(m, dictAddr, key, value) ==
    LET i == dictAddr.SegmentIndex
    IN  IF i \in DOMAIN m.dictionaries
          THEN [dm |-> [m EXCEPT !.dictionaries =
                          Put(@, i, SetEnd(Dictionary_Set(m.dictionaries[i],
                                                          key, value),
                                           dictAddr))],
                err |-> NoErr]
          ELSE [dm |-> m, err |-> NoDictionaryAtAddress]

\* the body of "for key, dict := range dm.dictionaries", over the keys in
\* the order the range visits them
RECURSIVE relocateRange(_, _, _, _)
relocateRange(m, rs, segmentAddr, order) ==
    IF order = <<>> THEN rs
    ELSE LET key == Head(order)
             dict == m.dictionaries[key]
         IN  relocateRange(m, AddRelocationRule(rs, -key, segmentAddr),
                           [segmentAddr EXCEPT !.Offset = @ + dict.end.Offset + 1],
                           Tail(order))

\* a relocation that never advances the offset: every rule targets the
\* start of the fresh segment
RelocateAllDictionariesAtStart(m, sg, rs, order) ==
    LET a == AllocateEmptySegment(sg)
        sources == {-order[n] : n \in 1..Len(order)}
    IN  [memory |-> a.memory,
         segmentAddr |-> a.addr,
         rules |-> [i \in DOMAIN rs \cup sources |->
                      IF i \in sources THEN a.addr ELSE rs[i]]]

RelocateAllDictionaries(m, sg, rs, order) ==
    LET a == AllocateEmptySegment(sg)
    IN  [memory |-> a.memory,
         segmentAddr |-> a.addr,
         rules |-> relocateRange(m, rs, a.addr, order)]

(***************************************************************************)
(* SpecDict: the operations of the DictionaryManager, in any order, on a   *)
(* VM whose memory holds the program and the execution segment.            *)
(***************************************************************************)
\* the most dictionaries a run creates
MaxDicts == 2

DictKeys == {FeltZero, FeltOne}
DictOffsets == {0, 1}

\* the writes a run makes to a dictionary: one key, written with one value
\* at offset 1 and with another at offset 0, in either order and any number
\* of times; the other key is read and never written
DictWrites ==
    {[key |-> FeltZero, value |-> MemoryValueFromFieldElement(FeltOne), Offset |-> 1],
     [key |-> FeltZero, value |-> MemoryValueFromFieldElement(FeltZero), Offset |-> 0]}

FreshSegments == [real |-> Cardinality({"program", "execution"}), temp |-> 0]

\* how many times the run relocated: every segment it allocated holds a
\* dictionary or is the target of a relocation
Relocations(m, sg) ==
    sg.real + sg.temp - FreshSegments.real - Cardinality(DOMAIN m.dictionaries)

\* the addresses handed to the manager: in a tracked segment, or in the
\* program segment, which holds no dictionary
DictSegments(m) == DOMAIN m.dictionaries \cup {ZeroAddress.SegmentIndex}
DictAddresses(m) ==
    {MemoryAddress(i, o) : i \in DOMAIN m.dictionaries, o \in DictOffsets}
      \cup {ZeroAddress}

DictCall(op, addr, key, value, err) ==
    [op |-> op, addr |-> addr, key |-> key, value |-> value, err |-> err]

DictRunning == dlast.err # NilMapPanic

InitDict ==
    /\ BindIdle
    /\ BuildIdle
    /\ ExecIdle
    /\ SquashIdle
    /\ dm = ZeroDictionaryManager
    /\ segments = FreshSegments
    /\ rules = EmptyMap
    /\ dlast = IdleDictCall

CallInitializeDictionaryManager(useTemporarySegments) ==
    /\ DictRunning
    /\ dm' = InitializeDictionaryManager(dm, useTemporarySegments)
    /\ dlast' = DictCall("InitializeDictionaryManager", ZeroAddress, FeltZero,
                         NilValue, NoErr)
    /\ UNCHANGED <<segments, rules, bindVars, buildVars, execVars, squashVars>>

CallNewDictionary ==
    /\ DictRunning
    /\ Cardinality(DOMAIN dm.dictionaries) < MaxDicts
    /\ IF dm.nil
         THEN /\ segments' = allocateForDictionary(dm, segments).memory
              /\ dlast' = DictCall("NewDictionary", ZeroAddress, FeltZero,
                                   NilValue, NilMapPanic)
              /\ UNCHANGED dm
         ELSE LET r == NewDictionary(dm, segments)
              IN  /\ dm' = r.dm
                  /\ segments' = r.memory
                  /\ dlast' = DictCall("NewDictionary", r.addr, FeltZero,
                                       NilValue, NoErr)
    /\ UNCHANGED <<rules, bindVars, buildVars, execVars, squashVars>>

CallGetDictionary(dictAddr) ==
    /\ DictRunning
    /\ dlast' = DictCall("GetDictionary", dictAddr, FeltZero, NilValue,
                         GetDictionary(dm, dictAddr).err)
    /\ UNCHANGED <<dm, segments, rules, bindVars, buildVars, execVars, squashVars>>

CallAt(dictAddr, key) ==
    /\ DictRunning
    /\ LET r == DictionaryManager_At(dm, dictAddr, key)
       IN  dlast' = DictCall("At", dictAddr, key, r.value, r.err)
    /\ UNCHANGED <<dm, segments, rules, bindVars, buildVars, execVars, squashVars>>

CallSet(dictAddr, key, value) ==
    /\ DictRunning
    /\ LET r == DictionaryManager_Set(dm, dictAddr, key, value)
       IN  /\ dm' = r.dm
           /\ dlast' = DictCall("Set", dictAddr, key, value, r.err)
    /\ UNCHANGED <<segments, rules, bindVars, buildVars, execVars, squashVars>>

\* a run relocates once; the calls that follow find the rules installed
CallRelocateAllDictionaries ==
    /\ DictRunning
    /\ Relocations(dm, segments) = 0
    /\ \E order \in Orders(DOMAIN dm.dictionaries) :
         LET r == RelocateAllDictionaries(dm, segments, rules, order)
         IN  /\ segments' = r.memory
             /\ rules' = r.rules
             /\ dlast' = DictCall("RelocateAllDictionaries", r.segmentAddr,
                                  FeltZero, NilValue, NoErr)
    /\ UNCHANGED <<dm, bindVars, buildVars, execVars, squashVars>>

NextDict ==
    \/ \E useTemporarySegments \in BOOLEAN :
         CallInitializeDictionaryManager(useTemporarySegments)
    \/ CallNewDictionary
    \/ \E i \in DictSegments(dm) : CallGetDictionary(MemoryAddress(i, 0))
    \/ \E dictAddr \in DictAddresses(dm), key \in DictKeys :
         CallAt(dictAddr, key)
    \/ \E i \in DictSegments(dm), w \in DictWrites :
         CallSet(MemoryAddress(i, w.Offset), w.key, w.value)
    \/ CallRelocateAllDictionaries

SpecDict == InitDict /\ [][NextDict]_vars


(***************************************************************************)
(* Properties of the DictionaryManager.                                    *)
(***************************************************************************)
Tracked == DOMAIN dm.dictionaries
Succeeded(call, op) == call.op = op /\ ~Failed(call.err)
\* what at(address, key) answers in the manager m
Answer(m, i, o, key) == DictionaryManager_At(m, MemoryAddress(i, o), key)

\* C11: round trip. at(A', key) for A' at any offset of a tracked segment
\* answers the value of the most recent set on that segment with that key,
\* and "no value for key" while the key was never set there: the At call
\* returns, at every offset, what the dictionary of the segment holds under
\* the key; a successful set on (segment, key) makes that its value; a new
\* dictionary holds no value under any key; and no other step (a set on
\* another dictionary, a later new_dictionary, a read, an initialization, a
\* relocation) changes what any dictionary holds under any key.
C11_RoundTrip ==
    [][/\ \A i \in Tracked, key \in DictKeys :
            IF /\ Succeeded(dlast', "Set")
               /\ dlast'.addr.SegmentIndex = i /\ dlast'.key = key
              THEN Answer(dm', i, 0, key) = [value |-> dlast'.value, err |-> NoErr]
              ELSE Answer(dm', i, 0, key) = Answer(dm, i, 0, key)
       /\ \A i \in DOMAIN dm'.dictionaries \ Tracked, key \in DictKeys :
            Answer(dm', i, 0, key) = [value |-> NilValue, err |-> NoValueForKey]
       /\ dlast'.op = "At" =>
            \A o \in DictOffsets :
              [value |-> dlast'.value, err |-> dlast'.err]
                = Answer(dm, dlast'.addr.SegmentIndex, o, dlast'.key)
      ]_vars

\* at returned the value last set, at another offset than the set's, while a
\* dictionary created later holds another value under the same key
C11_Witness ==
    /\ Succeeded(dlast, "At")
    /\ \E i, j \in Tracked :
         /\ dlast.addr.SegmentIndex = i
         /\ dlast.value = dm.dictionaries[i].data[dlast.key]
         /\ dlast.addr.Offset # dm.dictionaries[i].end.Offset
         /\ InitNumber(dm.dictionaries[j]) > InitNumber(dm.dictionaries[i])
         /\ dlast.key \in DOMAIN dm.dictionaries[j].data
         /\ dm.dictionaries[j].data[dlast.key] # dlast.value

\* C12: creation indices. The n-th successful new_dictionary registers the
\* creation index n - 1 (the number of dictionaries registered before it);
\* after every step (new_dictionary, set, at, get_dictionary, relocate_all,
\* a repeated initialization) the creation indices of the manager are
\* pairwise distinct and are exactly 0 .. count - 1, and every dictionary
\* tracked before the step is still tracked with the creation index it had.
C12_CreationIndex ==
    [][LET after == dm'.dictionaries
       IN  /\ Succeeded(dlast', "NewDictionary") =>
                /\ dlast'.addr.SegmentIndex \in DOMAIN after \ Tracked
                /\ InitNumber(after[dlast'.addr.SegmentIndex]) = Cardinality(Tracked)
           /\ \A i, j \in DOMAIN after :
                i # j => InitNumber(after[i]) # InitNumber(after[j])
           /\ {InitNumber(after[i]) : i \in DOMAIN after}
                = 0..(Cardinality(DOMAIN after) - 1)
           /\ \A i \in Tracked :
                /\ i \in DOMAIN after
                /\ InitNumber(after[i]) = InitNumber(dm.dictionaries[i])
      ]_vars

\* the second new_dictionary of a run registered index 1, in a real segment,
\* after a set on the first dictionary (in a temporary segment), a
\* relocation and an initialization that changed the kind of segment
C12_Witness ==
    /\ Succeeded(dlast, "NewDictionary")
    /\ \E i, j \in Tracked :
         /\ i < 0 /\ j > 0 /\ dlast.addr.SegmentIndex = j
         /\ InitNumber(dm.dictionaries[i]) = 0
         /\ InitNumber(dm.dictionaries[j]) = 1
         /\ dm.dictionaries[i].data # EmptyMap
         /\ -i \in DOMAIN rules

\* C13: relocate_all is deterministic. The relocation rules a call installs
\* are those of every order in which the range may visit the dictionaries:
\* each dictionary's target offset is the same whatever the iteration order.
C13_RelocationDeterministic ==
    [][Succeeded(dlast', "RelocateAllDictionaries") =>
         \A order \in Orders(Tracked) :
             rules' = RelocateAllDictionaries(dm, segments, rules, order).rules
      ]_vars

\* C16: end_address is the highest address ever passed to set. A successful
\* set on a dictionary leaves its end_address at the greater of the address
\* just passed and the end_address earlier sets left: a set at a lower
\* offset than an earlier set does not lower end_address.
C16_EndIsHighest ==
    [][Succeeded(dlast', "Set") =>
         LET i == dlast'.addr.SegmentIndex
             before == dm.dictionaries[i]
         IN  dm'.dictionaries[i].end =
               IF before.data # EmptyMap /\ before.end.Offset > dlast'.addr.Offset
                 THEN before.end
                 ELSE dlast'.addr
      ]_vars

\* the sum of end_address.offset + 1 over the first n dictionaries of order
RECURSIVE SpanBefore(_, _, _)
SpanBefore(m, order, n) ==
    IF n = 0 THEN 0
    ELSE SpanBefore(m, order, n - 1) + m.dictionaries[order[n]].end.Offset + 1

\* the cells of the fresh segment a rule gives the dictionary in segment i
RangeOf(m, rs, source, i) ==
    rs[source].Offset .. (rs[source].Offset + m.dictionaries[i].end.Offset)

\* one relocate_all call: it took one fresh real segment S, left the
\* dictionaries as they were, and installed for the dictionaries, in some
\* order of processing, one rule each, from Source(segment index) to
\* (S, sum of end_address.offset + 1 over the dictionaries processed before);
\* the ranges are pairwise disjoint and cover the fresh segment from 0 on
Relocated(Source(_)) ==
    LET S == segments.real
    IN  /\ segments' = [segments EXCEPT !.real = S + 1]
        /\ dlast'.addr = MemoryAddress(S, 0)
        /\ dm' = dm
        /\ DOMAIN rules' = DOMAIN rules \cup {Source(i) : i \in Tracked}
        /\ Cardinality({Source(i) : i \in Tracked}) = Cardinality(Tracked)
        /\ \A r \in DOMAIN rules \ {Source(i) : i \in Tracked} : rules'[r] = rules[r]
        /\ \E order \in Orders(Tracked) :
             /\ \A n \in 1..Len(order) :
                  rules'[Source(order[n])]
                    = MemoryAddress(S, SpanBefore(dm, order, n - 1))
             /\ \A i, j \in Tracked :
                  i # j => RangeOf(dm, rules', Source(i), i)
                             \cap RangeOf(dm, rules', Source(j), j) = {}
             /\ UNION {RangeOf(dm, rules', Source(i), i) : i \in Tracked}
                  = 0..(SpanBefore(dm, order, Len(order)) - 1)

OwnIndex(i) == i
NegatedIndex(i) == -i

C19_LookupErrors ==
    [][dlast'.op \in {"GetDictionary", "At", "Set"} =>
         LET i == dlast'.addr.SegmentIndex
         IN  /\ i \notin Tracked =>
                  /\ dlast'.err = NoDictionaryAtAddress
                  /\ <<dm, segments, rules>>' = <<dm, segments, rules>>
                  /\ i \notin DOMAIN dm'.dictionaries
             /\ (/\ dlast'.op = "At" /\ i \in Tracked
                 /\ dlast'.key \notin DOMAIN dm.dictionaries[i].data) =>
                  /\ dlast'.err = NoValueForKey
                  /\ dlast'.value = NilValue
                  /\ <<dm, segments, rules>>' = <<dm, segments, rules>>
      ]_vars

\* a set on an untracked segment failed while the manager tracks two
\* dictionaries, one of them written
C19_Witness ==
    /\ dlast.op = "Set"
    /\ dlast.err = NoDictionaryAtAddress
    /\ dlast.addr.SegmentIndex \notin Tracked
    /\ Cardinality(Tracked) = MaxDicts
    /\ \E i \in Tracked : dm.dictionaries[i].data # EmptyMap


(***************************************************************************)
(* SquashedDictionaryManager (dict.go:115-206). KeyToIndices is a map that *)
(* may be nil, Keys a slice that may be nil.                               *)
(***************************************************************************)
AlreadyInitialized == Err("squashed dictionary manager already initialized", NoName)
NoKeysLeft == Err("no keys left", NoName)
NoIndicesForKey == Err("no indices for key", NoName)

\* sdm.KeyToIndices[key]: the list, or a nil slice where the key is absent
indicesOf(s, key) ==
    IF key \in DOMAIN s.KeyToIndices.entries
      THEN s.KeyToIndices.entries[key] ELSE <<>>

\* an initialization that tests for emptiness, not for nil
InitializeSquashedDictionaryManagerIfEmpty(s) ==
    IF s.KeyToIndices.entries # EmptyMap \/ s.Keys.elems # <<>>
      THEN [sdm |-> s, err |-> AlreadyInitialized]
      ELSE [sdm |-> [KeyToIndices |-> [nil |-> FALSE, entries |-> EmptyMap],
                     Keys |-> [nil |-> FALSE, elems |-> <<>>]],
            err |-> NoErr]

InitializeSquashedDictionaryManager(s) ==
    IF ~s.KeyToIndices.nil \/ ~s.Keys.nil
      THEN [sdm |-> s, err |-> AlreadyInitialized]
      ELSE [sdm |-> [KeyToIndices |-> [nil |-> FALSE, entries |-> EmptyMap],
                     Keys |-> [nil |-> FALSE, elems |-> <<>>]],
            err |-> NoErr]

\* an Insert that puts the index at the head of the list
InsertAtHead(s, key, index) ==
    [s EXCEPT !.KeyToIndices.entries = Put(@, key, <<index>> \o indicesOf(s, key))]

\* on a manager whose map is not nil
Insert(s, key, index) ==
    [s EXCEPT !.KeyToIndices.entries =
        Put(@, key, IF key \in DOMAIN @ THEN Append(@[key], index)
                                       ELSE <<index>>)]

LastKey(s) ==
    IF Len(s.Keys.elems) = 0
      THEN [key |-> FeltZero, err |-> NoKeysLeft]
      ELSE [key |-> s.Keys.elems[Len(s.Keys.elems)], err |-> NoErr]

\* a PopKey that drops the head of the list
PopKeyFromHead(s) ==
    IF Len(s.Keys.elems) = 0
      THEN [sdm |-> s, key |-> FeltZero, err |-> NoKeysLeft]
      ELSE [sdm |-> [s EXCEPT !.Keys.elems = Tail(@)],
            key |-> s.Keys.elems[Len(s.Keys.elems)], err |-> NoErr]

PopKey(s) ==
    LET r == LastKey(s)
    IN  IF Failed(r.err)
          THEN [sdm |-> s, key |-> r.key, err |-> r.err]
          ELSE [sdm |-> [s EXCEPT !.Keys.elems = SubSeq(@, 1, Len(@) - 1)],
                key |-> r.key, err |-> NoErr]

LastIndices(s) ==
    LET r == LastKey(s)
    IN  IF Failed(r.err)
          THEN [indices |-> <<>>, err |-> r.err]
          ELSE [indices |-> indicesOf(s, r.key), err |-> NoErr]

LastIndex(s) ==
    LET r == LastKey(s)
        indices == indicesOf(s, r.key)
    IN  IF Failed(r.err) THEN [index |-> 0, err |-> r.err]
        ELSE IF Len(indices) = 0 THEN [index |-> 0, err |-> NoIndicesForKey]
        ELSE [index |-> indices[Len(indices)], err |-> NoErr]

\* a PopIndex that returns the last index and leaves the list as it was
PopIndexKept(s) ==
    LET r == LastKey(s)
        indices == indicesOf(s, r.key)
    IN  IF Failed(r.err) THEN [sdm |-> s, index |-> 0, err |-> r.err]
        ELSE IF Len(indices) = 0
          THEN [sdm |-> s, index |-> 0, err |-> NoIndicesForKey]
        ELSE [sdm |-> s, index |-> indices[Len(indices)], err |-> NoErr]

PopIndex(s) ==
    LET r == LastKey(s)
        indices == indicesOf(s, r.key)
    IN  IF Failed(r.err) THEN [sdm |-> s, index |-> 0, err |-> r.err]
        ELSE IF Len(indices) = 0
          THEN [sdm |-> s, index |-> 0, err |-> NoIndicesForKey]
        ELSE [sdm |-> [s EXCEPT !.KeyToIndices.entries =
                          Put(@, r.key, SubSeq(indices, 1, Len(indices) - 1))],
              index |-> indices[Len(indices)], err |-> NoErr]

(***************************************************************************)
(* SpecSquash: the operations of the SquashedDictionaryManager in any      *)
(* order. The hint that runs the squash fills Keys with a strictly         *)
(* descending list of keys (SetKeys).                                      *)
(***************************************************************************)
\* the most indices the lists of KeyToIndices hold together
MaxIndices == 3

SquashKeys == {FeltZero, FeltOne, FeltOne + FeltOne}
SquashIndices == {0, 1}

\* the keys of T, greatest first
SortDescending(T) ==
    CHOOSE o \in Orders(T) : \A i, j \in 1..Cardinality(T) : i < j => FeltLt(o[j], o[i])

RECURSIVE SumLen(_, _)
SumLen(entries, K) ==
    IF K = {} THEN 0
    ELSE LET key == CHOOSE x \in K : TRUE
         IN  Len(entries[key]) + SumLen(entries, K \ {key})

\* how many indices the manager holds
Held(s) == SumLen(s.KeyToIndices.entries, DOMAIN s.KeyToIndices.entries)

SquashCall(op, key, index, indices, err) ==
    [op |-> op, key |-> key, index |-> index, indices |-> indices, err |-> err]

SquashRunning == slast.err # NilMapPanic

InitSquash ==
    /\ BindIdle
    /\ BuildIdle
    /\ ExecIdle
    /\ DictIdle
    /\ sdm = ZeroSquashedDictionaryManager
    /\ slast = IdleSquashCall

CallInitializeSquashedDictionaryManager ==
    /\ SquashRunning
    /\ LET r == InitializeSquashedDictionaryManager(sdm)
       IN  /\ sdm' = r.sdm
           /\ slast' = SquashCall("InitializeSquashedDictionaryManager",
                                  FeltZero, 0, <<>>, r.err)
    /\ UNCHANGED <<bindVars, buildVars, execVars, dictVars>>

CallInsert(key, index) ==
    /\ SquashRunning
    /\ Held(sdm) < MaxIndices
    /\ IF sdm.KeyToIndices.nil
         THEN /\ slast' = SquashCall("Insert", key, index, <<>>, NilMapPanic)
              /\ UNCHANGED sdm
         ELSE /\ sdm' = Insert(sdm, key, index)
              /\ slast' = SquashCall("Insert", key, index, <<>>, NoErr)
    /\ UNCHANGED <<bindVars, buildVars, execVars, dictVars>>

\* the squash hint assigns sdm.Keys
SetKeys(T) ==
    /\ SquashRunning
    /\ ~sdm.Keys.nil
    /\ sdm' = [sdm EXCEPT !.Keys.elems = SortDescending(T)]
    /\ slast' = SquashCall("SetKeys", FeltZero, 0, <<>>, NoErr)
    /\ UNCHANGED <<bindVars, buildVars, execVars, dictVars>>

CallLastKey ==
    /\ SquashRunning
    /\ LET r == LastKey(sdm)
       IN  slast' = SquashCall("LastKey", r.key, 0, <<>>, r.err)
    /\ UNCHANGED <<sdm, bindVars, buildVars, execVars, dictVars>>

CallPopKey ==
    /\ SquashRunning
    /\ LET r == PopKey(sdm)
       IN  /\ sdm' = r.sdm
           /\ slast' = SquashCall("PopKey", r.key, 0, <<>>, r.err)
    /\ UNCHANGED <<bindVars, buildVars, execVars, dictVars>>

CallLastIndices ==
    /\ SquashRunning
    /\ LET r == LastIndices(sdm)
       IN  slast' = SquashCall("LastIndices", FeltZero, 0, r.indices, r.err)
    /\ UNCHANGED <<sdm, bindVars, buildVars, execVars, dictVars>>

CallLastIndex ==
    /\ SquashRunning
    /\ LET r == LastIndex(sdm)
       IN  slast' = SquashCall("LastIndex", FeltZero, r.index, <<>>, r.err)
    /\ UNCHANGED <<sdm, bindVars, buildVars, execVars, dictVars>>

CallPopIndex ==
    /\ SquashRunning
    /\ LET r == PopIndex(sdm)
       IN  /\ sdm' = r.sdm
           /\ slast' = SquashCall("PopIndex", FeltZero, r.index, <<>>, r.err)
    /\ UNCHANGED <<bindVars, buildVars, execVars, dictVars>>

NextSquash ==
    \/ CallInitializeSquashedDictionaryManager
    \/ \E key \in SquashKeys, index \in SquashIndices : CallInsert(key, index)
    \/ \E T \in SUBSET SquashKeys : SetKeys(T)
    \/ CallLastKey
    \/ CallPopKey
    \/ CallLastIndices
    \/ CallLastIndex
    \/ CallPopIndex

SpecSquash == InitSquash /\ [][NextSquash]_vars


(***************************************************************************)
(* Properties of the SquashedDictionaryManager.                            *)
(***************************************************************************)
\* what a successful initialization leaves: a map and a slice, not nil
Initialized(s) == ~s.KeyToIndices.nil /\ ~s.Keys.nil
KeysOfSquash == sdm.Keys.elems
TailKey == KeysOfSquash[Len(KeysOfSquash)]

\* C14: at most one initialization. A successful initialize leaves the
\* manager initialized; no step (insert, pop_key, pop_index, a read, the
\* filling of keys) ends that, whatever it drains; and on an initialized
\* manager every initialize fails with the already-initialized error and
\* leaves keys and key_to_indices unchanged.
C14_InitializeOnce ==
    [][/\ Succeeded(slast', "InitializeSquashedDictionaryManager") =>
            Initialized(sdm')
       /\ Initialized(sdm) => Initialized(sdm')
       /\ (Initialized(sdm) /\ slast'.op = "InitializeSquashedDictionaryManager") =>
            /\ slast'.err = AlreadyInitialized
            /\ sdm' = sdm
      ]_vars

\* an initialize failed on a manager whose keys and index lists were all
\* drained to empty
C14_Witness ==
    /\ slast.op = "InitializeSquashedDictionaryManager"
    /\ slast.err = AlreadyInitialized
    /\ KeysOfSquash = <<>>
    /\ DOMAIN sdm.KeyToIndices.entries = SquashKeys
    /\ \A key \in SquashKeys : sdm.KeyToIndices.entries[key] = <<>>

Front(q) == SubSeq(q, 1, Len(q) - 1)
\* every key but those of K keeps its index list over the step
IndicesKeptBut(K) ==
    \A key \in SquashKeys \ K : indicesOf(sdm', key) = indicesOf(sdm, key)

StrictlyDescending(q) == \A i, j \in 1..Len(q) : i < j => FeltLt(q[j], q[i])
Elements(q) == {q[i] : i \in 1..Len(q)}

\* C18: keys is consumed smallest first. While keys is strictly descending:
\* last_key returns the minimum of the keys that remain, and pop_key returns
\* it, removes only the tail (the keys that remain are the others, in the
\* same order, still strictly descending, and all greater than the key
\* returned, so successive pop_key return strictly ascending keys) and
\* leaves key_to_indices unchanged; insert and pop_index leave keys
\* unchanged.
C18_KeysSmallestFirst ==
    [][StrictlyDescending(KeysOfSquash) =>
         /\ (slast'.op = "LastKey" /\ KeysOfSquash # <<>>) =>
              /\ slast'.err = NoErr
              /\ slast'.key \in Elements(KeysOfSquash)
              /\ \A key \in Elements(KeysOfSquash) : FeltLe(slast'.key, key)
              /\ sdm' = sdm
         /\ (slast'.op = "PopKey" /\ KeysOfSquash # <<>>) =>
              /\ slast'.err = NoErr
              /\ slast'.key \in Elements(KeysOfSquash)
              /\ \A key \in Elements(KeysOfSquash) : FeltLe(slast'.key, key)
              /\ sdm'.Keys.elems = Front(KeysOfSquash)
              /\ StrictlyDescending(sdm'.Keys.elems)
              /\ \A key \in Elements(sdm'.Keys.elems) : FeltLt(slast'.key, key)
              /\ sdm'.KeyToIndices = sdm.KeyToIndices
         /\ slast'.op \in {"Insert", "PopIndex"} => sdm'.Keys = sdm.Keys
      ]_vars

\* pop_key returned a key while two greater keys remain and index lists
\* are held
C18_Witness ==
    /\ Succeeded(slast, "PopKey")
    /\ Len(KeysOfSquash) = 2
    /\ FeltLt(slast.key, TailKey)
    /\ Held(sdm) > 0


(***************************************************************************)
(* SpecConsume: the consumption loop of a squash. The inserts are over and *)
(* keys is filled; the loop pops the indices of the tail key and then the  *)
(* key, and reads between the pops. The loop keeps going (weak fairness of *)
(* its step).                                                              *)
(***************************************************************************)
\* key_to_indices after the inserts: every key inserted has indices
InsertedMaps ==
    {e \in UNION {[D -> SeqUpTo(SquashIndices, MaxIndices) \ {<<>>}] :
                    D \in SUBSET SquashKeys} :
        SumLen(e, DOMAIN e) <= MaxIndices}

InitConsume ==
    /\ BindIdle
    /\ BuildIdle
    /\ ExecIdle
    /\ DictIdle
    /\ \E e \in InsertedMaps, T \in SUBSET SquashKeys :
         sdm = [KeyToIndices |-> [nil |-> FALSE, entries |-> e],
                Keys |-> [nil |-> FALSE, elems |-> SortDescending(T)]]
    /\ slast = IdleSquashCall

\* pop_index while the tail key has indices, pop_key otherwise
ConsumeStep ==
    IF sdm.Keys.elems # <<>> /\ LastIndices(sdm).indices # <<>>
      THEN CallPopIndex
      ELSE CallPopKey

NextConsume ==
    \/ CallLastKey
    \/ CallPopKey
    \/ CallLastIndices
    \/ CallLastIndex
    \/ CallPopIndex

SpecConsume == InitConsume /\ [][NextConsume]_vars /\ WF_vars(ConsumeStep)

\* number of keys + number of indices of the keys still in keys
Measure(s) ==
    Len(s.Keys.elems)
      + SumLen([key \in Elements(s.Keys.elems) |-> indicesOf(s, key)],
               Elements(s.Keys.elems))

\* C20: the consumption loop terminates. With no further inserts, popping
\* the index of the tail key while it has one and the key otherwise reaches
\* keys empty and keys stays empty; once keys is empty last_key, pop_key,
\* last_indices, last_index and pop_index all fail with the no-keys-left
\* error and change nothing; every successful pop_key or pop_index strictly
\* decreases number of keys + number of indices of the keys still in keys.
C20_ConsumptionTerminates ==
    /\ <>[](KeysOfSquash = <<>>)
    /\ [][/\ KeysOfSquash = <<>> => slast'.err = NoKeysLeft /\ sdm' = sdm
          /\ (Succeeded(slast', "PopKey") \/ Succeeded(slast', "PopIndex")) =>
                Measure(sdm') < Measure(sdm)
         ]_vars

\* the loop emptied keys, draining the index list of a key on the way, and
\* the next pop_index failed for want of keys
C20_Witness ==
    /\ slast.op = "PopIndex"
    /\ slast.err = NoKeysLeft
    /\ KeysOfSquash = <<>>
    /\ \E key \in DOMAIN sdm.KeyToIndices.entries :
         sdm.KeyToIndices.entries[key] = <<>>

====
